---- MODULE Spec2Model ----
(***************************************************************************)
(* Signaling relay and room registry of WatchTogether.                     *)
(*                                                                         *)
(* Two revisions of the relay are in the repository: src/server.js and     *)
(* src/unnamed/part_002.  They share the join-room, offer, answer,         *)
(* ice-candidate, chat-message and disconnect handlers; only part_002      *)
(* registers a video-state handler.  No handler changes its behaviour with *)
(* the revision except that one, and that one changes nothing but its own  *)
(* emits, so the revision is an input of the video-state step.             *)
(*                                                                         *)
(* socket.join / socket.leave / socket.to(..).emit are calls into the      *)
(* socket.io in-memory adapter.  The adapter keeps, per socket, the set of *)
(* adapter rooms it is in (sids); every socket starts in the adapter room  *)
(* named by its own id; to(room) resolves to the sockets in that adapter   *)
(* room except the sender; a closing socket leaves all adapter rooms       *)
(* before 'disconnect' fires.  The repository pins no socket.io version:   *)
(* 3.x excludes the sender by socket id, 4.x excludes the sockets in the   *)
(* adapter room named by the sender's id, and both outcomes are modelled.  *)
(***************************************************************************)
EXTENDS Naturals, Sequences, FiniteSets, TLC

\* ---------------------------------------------------------------- bounds
MaxJoins == 3        \* join-room events handled in one behaviour
MaxEmits == 3        \* join-room events the mesh clients emit in one behaviour
MaxCandidates == 1   \* candidates one RTCPeerConnection gathers

\* ------------------------------------------------------------ identifiers
\* socket ids, named in the order the connections arrive
ConnId == <<"c1", "c2", "c3">>
Conns == {ConnId[i] : i \in 1..Len(ConnId)}

\* socket.roomId before any join-room, and a join-room emitted without an id
Undefined == "<undefined>"
\* the empty string, the other falsy room id
Empty == ""
NamedRooms == {"r1", "r2"}
\* room ids are arbitrary client-supplied strings: a client may send none, or
\* a string that is also a connection id
RoomIds == NamedRooms \cup {Undefined} \cup {ConnId[1]}
\* the target field of a directed message: a connection id by design, a room
\* id from the single-peer client (part_000 createOffer), or anything else
Targets == RoomIds \cup Conns

Revisions == {"server.js", "part_002"}
SignalEvents == {"offer", "answer", "ice-candidate"}
Blobs == {"sdp"}
\* the payloads a misbehaving client can build: another description, and a
\* sender field of its own choosing (absent, its id, somebody else's id)
ForgedBlobs == {"sdp", "sdp'"}
ForgedSenders == {Undefined, ConnId[1], ConnId[2]}

\* JavaScript truthiness of a room id: `if (socket.roomId)`
Truthy(r) == r \notin {Undefined, Empty}

VARIABLES
    status,     \* status[c]: "new" (not yet connected), "connected", "closed",
                \* "down" (the relay process exited with c open or pending)
    sids,       \* sids[c]: adapter rooms socket c is in
    roomId,     \* roomId[c]: the socket.roomId property
    rooms,      \* the rooms Map: room id -> users array
    joins,      \* join-room events handled so far
    last,       \* the event the relay handled last
    out,        \* the emits of that handler, in order: [ev, data, rcpt]
    \* ---- the mesh clients (browser side) of one room
    build,      \* the client revision every browser runs
    members,    \* the users list the relay keeps for the room
    peers,      \* peers[p][q]: the link client p holds for remote q
    inbox,      \* inbox[p]: socket messages on their way to client p
    pending,    \* pending[p][q]: offers of p to q not yet answered
    dropped,    \* dropped[p]: remotes a candidate of which p threw away
    emits,      \* join-room events the clients emitted so far
    \* ---- one browser: its chat box and its YouTube player
    chat,       \* the last chat submission and what it made the client send
    player,     \* the YouTube player: state, position, video
    vs,         \* the last remote video-state handled and the player calls
    page,       \* the revision the page runs, and this.isConnected
    now,        \* Date.now(), in units of 100 ms
    ignore,     \* window.ignorePlayerStateChange
    timers,     \* the due times of the pending setTimeout callbacks
    events,     \* player state-change events not yet delivered
    sync,       \* this.lastSyncTime, this.lastVideoState, the last emission
    pe,         \* the last player event onPlayerStateChange handled
    inputs,     \* remote video-states and user clicks so far
    \* ---- the site: the app page's start, the single-peer client, signup
    auth,       \* localStorage's credentials and how far the app page got
    sp,         \* sp[p]: the single-peer client p (isOfferer, peerConnection)
    accounts    \* the relay's users Map and the signup requests in progress

relayVars == <<status, sids, roomId, rooms, joins, last, out>>
meshVars == <<build, members, peers, inbox, pending, dropped, emits>>
syncVars == <<page, now, ignore, timers, events, sync, pe, inputs>>
pageVars == <<chat, player, vs, syncVars>>
siteVars == <<auth, sp, accounts>>
clientVars == <<meshVars, pageVars, siteVars>>
vars == <<relayVars, clientVars>>

\* ------------------------------------------------------ socket.io adapter
\* adapter.rooms.get(r): the sockets in adapter room r
Members(s, r) == {c \in Conns : r \in s[c]}

\* socket.join(r)
AdapterJoin(s, c, r) == [s EXCEPT ![c] = @ \cup {r}]

\* socket.leave(r)
AdapterLeave(s, c, r) == [s EXCEPT ![c] = @ \ {r}]

\* socket.to(r).emit(..) from socket c: the sets of sockets that may get the
\* packet (one set per way the adapter excludes the sender)
BroadcastTo(s, c, r) == {Members(s, r) \ {c}, Members(s, r) \ Members(s, c)}

\* ------------------------------------------------------------- registry
\* room.users.filter(id => id !== socket.id)
Without(users, c) == SelectSeq(users, LAMBDA id : id # c)

\* room.users.includes(socket.id)
Includes(users, c) == \E i \in 1..Len(users) : users[i] = c

\* if (!rooms.has(roomId)) rooms.set(roomId, { users: [] })
EnsureRoom(m, r) == IF r \in DOMAIN m THEN m ELSE m @@ (r :> <<>>)

\* if (!room.users.includes(socket.id)) room.users.push(socket.id)
AddUser(m, r, c) ==
    IF Includes(m[r], c) THEN m ELSE [m EXCEPT ![r] = Append(@, c)]

\* rooms.delete(roomId)
DeleteRoom(m, r) == [x \in DOMAIN m \ {r} |-> m[x]]

Emit(ev, data, rcpt) == [ev |-> ev, data |-> data, rcpt |-> rcpt]

\* --------------------------------------------------------- mesh clients
\* the two revisions of the browser client that keep one link per remote:
\* YouTubeWatchTogether of part_001 (peers is a Map) and
\* VideoChatApplication of app.js (peers is an object)
MeshBuilds == {"part_001", "app.js"}
\* the browsers of the room, named by their socket ids
Clients == {ConnId[1], ConnId[2]}
\* this.peers has no entry for the remote
NoLink == [kind |-> "none"]

\* a socket message on its way to a client
Msg(ev, from, users) == [ev |-> ev, from |-> from, users |-> users]

\* the clients before any of them has connected
MeshInit ==
    /\ members = << >>
    /\ peers = [p \in Clients |-> [q \in Clients |-> NoLink]]
    /\ inbox = [p \in Clients |-> << >>]
    /\ pending = [p \in Clients |-> [q \in Clients |-> 0]]
    /\ dropped = [p \in Clients |-> {}]
    /\ emits = 0

\* ------------------------------------------------------- one browser page
\* positions in tenths of a second
Times == {0, 4, 10, 14, 30}
VideoIds == {"v1", "v2"}
\* YT.PlayerState values the handlers tell apart, and one they do not
RemoteStates == {"PLAYING", "PAUSED", "CUED", "ENDED"}
\* the revisions of the player page: YouTubeWatchTogether of app.js, of
\* part_001 and of part_000
PlayerBuilds == {"app.js", "part_001", "part_000"}
\* the revisions of the chat box: the three above and VideoChatApplication
ChatBuilds == PlayerBuilds \cup {"app.js/VideoChatApplication"}
\* RTCDataChannel.readyState, or no data channel at all
ChannelStates == {"none", "connecting", "open", "closed"}
MaxLen == 2
\* this.syncThrottle = 100 and the 500 ms of the guard window, in clock units
SyncThrottle == 1
GuardWindow == 5
\* Date.now() when the page starts: far more than the throttle after 0
StartNow == SyncThrottle
MaxNow == 7          \* the clock stops here
MaxPending == 2      \* player events that may wait for delivery
MaxInputs == 3       \* remote video-states and user clicks in one behaviour
\* this.lastVideoState = null
NoVideoState == [state |-> "none", currentTime |-> 0]
Chars == {" ", "a"}
\* what may be in the message input when the user submits
Texts == UNION {[1..n -> Chars] : n \in 0..MaxLen}

\* the page once the player is ready: the room's video cued at the start
PageIdle ==
    /\ chat = [op |-> "none"]
    /\ player = [state |-> "CUED", time |-> 0, videoId |-> "v1"]
    /\ vs = [op |-> "none"]
    /\ now = StartNow
    /\ ignore = FALSE
    /\ timers = {}
    /\ events = << >>
    /\ sync = [lastSyncTime |-> 0, lastVideoState |-> NoVideoState,
               lastEmitAt |-> {}]
    /\ pe = [op |-> "none"]
    /\ inputs = 0

PageInit ==
    /\ PageIdle
    /\ page = [rev |-> "app.js", isConnected |-> TRUE]

\* ------------------------------------------------- the site around a page

\* localStorage.getItem of a key that is not there
Null == "null-value"
\* what localStorage can hold under 'authToken'
Tokens == {Null, "", "jwt"}
\* what localStorage can hold under 'currentUser'
StoredUsers == {Null, "", "{bad", "null", "false", "{}",
                "{\"username\":\"ann\"}"}
\* the four application classes that start with init()
AppBuilds == {"app.js/VideoChatApplication", "app.js/YouTubeWatchTogether",
              "part_000", "part_001"}
\* maxRetries of initializeSocketWithRetry
MaxRetries == 5
\* the user records a signup or signin response carries
ResultUsers == {"{\"username\":\"ann\"}"}

\* a page that has not run init() yet, over the given storage
Unloaded(token, user, rev) ==
    [token |-> token, user |-> user, rev |-> rev, pc |-> "unloaded",
     currentUser |-> Null, checked |-> [token |-> Null, user |-> Null],
     socket |-> FALSE, joined |-> FALSE, retries |-> 0]

\* email addresses and passwords of signup requests (Null: field missing,
\* "number": a JSON number, which bcrypt.hash rejects)
Emails == {Null, "a@x", "b@x"}
Passwords == {Null, "pw", "number"}
Requests == {1, 2, 3}
\* a request the relay has not received yet
NoRequest == [pc |-> "idle", email |-> Null, password |-> Null,
              code |-> 0, token |-> Null]
\* an email address without a record in the users Map
NoUser == [id |-> 0]

\* the single-peer clients as their constructor leaves them
SingleIdle ==
    sp = [p \in Clients |-> [rev |-> "part_000", isOfferer |-> FALSE,
                             peerConnection |-> FALSE, nn |-> FALSE,
                             peers |-> << >>, op |-> "none",
                             connect |-> FALSE, clicks |-> 0]]

\* the relay's users Map, empty, and no signup request received
AccountsIdle ==
    accounts = [users |-> [e \in Emails \ {Null} |-> NoUser],
                req |-> [r \in Requests |-> NoRequest],
                ids |-> 0, overwritten |-> {}]

\* a signed-in browser, no single-peer client started, no signup request
SiteIdle ==
    /\ auth = Unloaded("jwt", "{\"username\":\"ann\"}", "part_001")
    /\ SingleIdle
    /\ AccountsIdle

\* ----------------------------------------------------------------- Init
RelayInit ==
    /\ status = [c \in Conns |-> "new"]
    /\ sids = [c \in Conns |-> {}]
    /\ roomId = [c \in Conns |-> Undefined]
    /\ rooms = << >>
    /\ joins = 0
    /\ last = [op |-> "init", conn |-> Undefined, arg |-> Undefined, rev |-> "any"]
    /\ out = << >>

Init ==
    /\ RelayInit
    /\ build = "part_001"
    /\ MeshInit
    /\ PageInit
    /\ SiteIdle

\* io.on('connection'): a new socket, in the adapter room named by its id.
\* Ids are allocated at connect time; they are named in the order of arrival.
Connect(c) ==
    /\ status[c] = "new"
    /\ \A i \in 2..Len(ConnId) : c = ConnId[i] => status[ConnId[i - 1]] # "new"
    /\ status' = [status EXCEPT ![c] = "connected"]
    /\ sids' = [sids EXCEPT ![c] = {c}]
    /\ last' = [op |-> "connection", conn |-> c, arg |-> Undefined, rev |-> "any"]
    /\ out' = << >>
    /\ UNCHANGED <<roomId, rooms, joins>>
    /\ UNCHANGED clientVars

\* socket.on('join-room', roomId)
JoinRoom(c, r) ==
    /\ status[c] = "connected"
    /\ joins < MaxJoins
    /\ LET left == IF Truthy(roomId[c]) THEN AdapterLeave(sids, c, roomId[c])
                   ELSE sids
           joined == AdapterJoin(left, c, r)
           reg == AddUser(EnsureRoom(rooms, r), r, c)
       IN /\ sids' = joined
          /\ roomId' = [roomId EXCEPT ![c] = r]
          /\ rooms' = reg
          /\ \E rcpt \in BroadcastTo(joined, c, r) :
                out' = << Emit("room-users", Without(reg[r], c), {c}),
                          Emit("user-joined", c, rcpt) >>
    /\ joins' = joins + 1
    /\ last' = [op |-> "join-room", conn |-> c, arg |-> r, rev |-> "any"]
    /\ UNCHANGED <<status>>
    /\ UNCHANGED clientVars

\* the object a handler sends on for payload data received from socket c:
\*   { offer: data.offer, sender: socket.id }     (answer, candidate alike)
\*   { ...data, sender: socket.id }               (video-state)
RelayedAsSent(ev, data, c) ==
    IF ev = "video-state" THEN data
    ELSE [blob |-> data.blob, sender |-> data.sender]
Relayed(ev, data, c) ==
    IF ev = "video-state" THEN [data EXCEPT !.sender = c]
    ELSE [blob |-> data.blob, sender |-> c]

\* socket.on('offer' | 'answer' | 'ice-candidate', data), data.target = target
Signal(c, ev, target, data) ==
    /\ status[c] = "connected"
    /\ \E rcpt \in BroadcastTo(sids, c, target) :
          out' = << Emit(ev, Relayed(ev, data, c), rcpt) >>
    /\ last' = [op |-> ev, conn |-> c, arg |-> target, rev |-> "any",
                data |-> data]
    /\ UNCHANGED <<status, sids, roomId, rooms, joins>>
    /\ UNCHANGED clientVars

\* socket.on('chat-message', data)
ChatMessage(c) ==
    /\ status[c] = "connected"
    /\ \E rcpt \in BroadcastTo(sids, c, roomId[c]) :
          out' = << Emit("chat-message", "chat", rcpt) >>
    /\ last' = [op |-> "chat-message", conn |-> c, arg |-> roomId[c],
                rev |-> "any"]
    /\ UNCHANGED <<status, sids, roomId, rooms, joins>>
    /\ UNCHANGED clientVars

\* socket.on('video-state', data): registered by part_002 only; in server.js
\* the event has no listener and nothing is emitted
VideoState(c, rev, data) ==
    /\ status[c] = "connected"
    /\ IF rev = "part_002"
       THEN \E rcpt \in BroadcastTo(sids, c, roomId[c]) :
               out' = << Emit("video-state",
                              Relayed("video-state", data, c), rcpt) >>
       ELSE out' = << >>
    /\ last' = [op |-> "video-state", conn |-> c, arg |-> roomId[c],
                rev |-> rev, data |-> data]
    /\ UNCHANGED <<status, sids, roomId, rooms, joins>>
    /\ UNCHANGED clientVars

\* the body of socket.on('disconnect'), run with adapter state s
OnDisconnect(s, c) ==
    IF Truthy(roomId[c]) /\ roomId[c] \in DOMAIN rooms
    THEN LET r == roomId[c]
             users == Without(rooms[r], c)
         IN /\ rooms' = IF Len(users) = 0 THEN DeleteRoom(rooms, r)
                        ELSE [rooms EXCEPT ![r] = users]
            /\ \E rcpt \in BroadcastTo(s, c, r) :
                  out' = << Emit("user-left", c, rcpt) >>
    ELSE /\ rooms' = rooms
         /\ out' = << >>

\* transport close: the socket leaves every adapter room, then 'disconnect'
Disconnect(c) ==
    /\ status[c] = "connected"
    /\ status' = [status EXCEPT ![c] = "closed"]
    /\ sids' = [sids EXCEPT ![c] = {}]
    /\ OnDisconnect(sids', c)
    /\ last' = [op |-> "disconnect", conn |-> c, arg |-> roomId[c],
                rev |-> "any"]
    /\ UNCHANGED <<roomId, joins>>
    /\ UNCHANGED clientVars

\* a duplicate 'disconnect' event for a socket that is already closed
DisconnectAgain(c) ==
    /\ status[c] = "closed"
    /\ OnDisconnect(sids, c)
    /\ last' = [op |-> "disconnect-again", conn |-> c, arg |-> roomId[c],
                rev |-> "any"]
    /\ UNCHANGED <<status, sids, roomId, joins>>
    /\ UNCHANGED clientVars

Next ==
    \/ \E c \in Conns : Connect(c)
    \/ \E c \in Conns, r \in RoomIds : JoinRoom(c, r)
    \/ \E c \in Conns, ev \in SignalEvents, t \in Targets, b \in Blobs :
          Signal(c, ev, t, [blob |-> b, sender |-> Undefined])
    \/ \E c \in Conns : ChatMessage(c)
    \/ \E c \in Conns, rev \in Revisions :
          VideoState(c, rev, [state |-> "PLAYING", sender |-> c])
    \/ \E c \in Conns : Disconnect(c)

Spec == Init /\ [][Next]_vars

\* the relay driven by well-formed clients only: every join-room names a room,
\* every target is a connection id or a named room
NextNamed ==
    \/ \E c \in Conns : Connect(c)
    \/ \E c \in Conns, r \in NamedRooms : JoinRoom(c, r)
    \/ \E c \in Conns, ev \in SignalEvents, t \in Conns \cup NamedRooms,
          b \in Blobs : Signal(c, ev, t, [blob |-> b, sender |-> Undefined])
    \/ \E c \in Conns : ChatMessage(c)
    \/ \E c \in Conns, rev \in Revisions :
          VideoState(c, rev, [state |-> "PLAYING", sender |-> c])
    \/ \E c \in Conns : Disconnect(c)

SpecNamed == Init /\ [][NextNamed]_vars

\* well-formed clients, and a transport that may deliver 'disconnect' twice
NextDup ==
    \/ \E c \in Conns : Connect(c)
    \/ \E c \in Conns, r \in NamedRooms : JoinRoom(c, r)
    \/ \E c \in Conns, ev \in SignalEvents, t \in Conns \cup NamedRooms,
          b \in Blobs : Signal(c, ev, t, [blob |-> b, sender |-> Undefined])
    \/ \E c \in Conns : ChatMessage(c)
    \/ \E c \in Conns, rev \in Revisions :
          VideoState(c, rev, [state |-> "PLAYING", sender |-> c])
    \/ \E c \in Conns : Disconnect(c)
    \/ \E c \in Conns : DisconnectAgain(c)

SpecDup == Init /\ [][NextDup]_vars

\* the payload of an event emitted with no argument: `data` is undefined
NoPayload == "<no payload>"
RelayedEvents == SignalEvents \cup {"chat-message", "video-state"}

\* socket.on(ev, (data) => ..) run with data === undefined.  The offer, answer,
\* ice-candidate and chat-message handlers read a property of data
\* (data.target, data.username) before anything else: a TypeError, thrown in a
\* listener that nothing wraps in try/catch and with no 'uncaughtException'
\* handler installed, so the node process exits and every connection goes
\* with it.  The video-state handler of part_002 spreads data ({...undefined}
\* is {}) and relays { sender }; server.js has no listener for it.
EmitWithoutPayload(c, ev, rev) ==
    /\ status[c] = "connected"
    /\ IF ev = "video-state"
       THEN /\ IF rev = "part_002"
               THEN \E rcpt \in BroadcastTo(sids, c, roomId[c]) :
                       out' = << Emit("video-state", [sender |-> c], rcpt) >>
               ELSE out' = << >>
            /\ last' = [op |-> ev, conn |-> c, arg |-> NoPayload, rev |-> rev]
            /\ UNCHANGED <<status, sids>>
       ELSE /\ status' = [d \in Conns |-> "down"]
            /\ sids' = [d \in Conns |-> {}]
            /\ out' = << >>
            /\ last' = [op |-> ev, conn |-> c, arg |-> NoPayload,
                        rev |-> "any"]
    /\ UNCHANGED <<roomId, rooms, joins>>
    /\ UNCHANGED clientVars

\* clients that may also emit join-room without a room id, address a target
\* that is no open connection, or emit an event with no payload
NextBare ==
    \/ \E c \in Conns : Connect(c)
    \/ \E c \in Conns, r \in NamedRooms \cup {Undefined} : JoinRoom(c, r)
    \/ \E c \in Conns, ev \in SignalEvents, t \in Conns \cup NamedRooms,
          b \in Blobs : Signal(c, ev, t, [blob |-> b, sender |-> Undefined])
    \/ \E c \in Conns : ChatMessage(c)
    \/ \E c \in Conns, rev \in Revisions :
          VideoState(c, rev, [state |-> "PLAYING", sender |-> c])
    \/ \E c \in Conns : Disconnect(c)
    \/ \E c \in Conns, ev \in RelayedEvents, rev \in Revisions :
          EmitWithoutPayload(c, ev, rev)

SpecBare == Init /\ [][NextBare]_vars

\* clients of one room that put what they like into their payloads
NextForged ==
    \/ \E c \in Conns : Connect(c)
    \/ \E c \in Conns : JoinRoom(c, "r1")
    \/ \E c \in Conns, ev \in SignalEvents, t \in Conns \cup {"r1"},
          b \in ForgedBlobs, s \in ForgedSenders :
          Signal(c, ev, t, [blob |-> b, sender |-> s])
    \/ \E c \in Conns, rev \in Revisions, s \in ForgedSenders :
          VideoState(c, rev, [state |-> "PLAYING", sender |-> s])
    \/ \E c \in Conns : Disconnect(c)

SpecForged == Init /\ [][NextForged]_vars

\* ------------------------------------------------ mesh clients: the steps
\* new RTCPeerConnection(..) as createPeerConnection(userId, initiator) leaves
\* it, created while handling the socket event `via`.
\*   part_001: an initiator calls createOffer(userId) at once: the offer is
\*             its local description and is emitted;
\*   app.js:   an initiator registers onnegotiationneeded; the tracks added
\*             just before make the browser fire it later.
\* signaling / local / remote are the RTCPeerConnection's signalingState and
\* whether localDescription / remoteDescription are set; conn is its
\* connectionState.
NewLink(b, initiator, via) ==
    [initiator |-> initiator,
     via |-> via,
     signaling |-> IF initiator /\ b = "part_001" THEN "have-local-offer"
                   ELSE "stable",
     local |-> initiator /\ b = "part_001",
     remote |-> FALSE,
     nn |-> initiator /\ b = "app.js",
     offered |-> initiator /\ b = "part_001",
     conn |-> "new",
     gathered |-> 0]

\* socket.emit(ev, { target: q, .. }) by p, forwarded by the relay to q
SendTo(box, q, ev, p) == [box EXCEPT ![q] = Append(@, Msg(ev, p, << >>))]

\* the relay's join-room for the one room: the users list gets p (once), p
\* gets room-users with the others, every other member gets user-joined
RelayJoin(p) ==
    /\ emits < MaxEmits
    /\ emits' = emits + 1
    /\ LET users == IF Includes(members, p) THEN members
                    ELSE Append(members, p)
       IN /\ members' = users
          /\ inbox' = [q \in Clients |->
                IF q = p
                THEN Append(inbox[q], Msg("room-users", p, Without(users, p)))
                ELSE IF Includes(users, q)
                     THEN Append(inbox[q], Msg("user-joined", p, << >>))
                     ELSE inbox[q]]
    /\ UNCHANGED <<build, peers, pending, dropped>>
    /\ UNCHANGED <<relayVars, pageVars, siteVars>>

\* socket.on('connect'): the client emits join-room for its room
MeshJoin(p) ==
    /\ ~Includes(members, p)
    /\ RelayJoin(p)

\* a client that is in the room emits join-room for the same room again
MeshRejoin(p) ==
    /\ Includes(members, p)
    /\ RelayJoin(p)

\* socket.on('room-users', users)
\*   part_001: createPeerConnection(userId, false) for the ids it has no link
\*             for;  app.js: createPeerConnection(userId, true), which keeps
\*             an existing link
OnRoomUsers(p) ==
    /\ inbox[p] # << >>
    /\ Head(inbox[p]).ev = "room-users"
    /\ LET users == Head(inbox[p]).users
       IN peers' = [peers EXCEPT ![p] = [q \in Clients |->
              IF Includes(users, q) /\ q # p /\ peers[p][q] = NoLink
              THEN NewLink(build, build = "app.js", "room-users")
              ELSE peers[p][q]]]
    /\ inbox' = [inbox EXCEPT ![p] = Tail(@)]
    /\ UNCHANGED <<build, members, pending, dropped, emits>>
    /\ UNCHANGED <<relayVars, pageVars, siteVars>>

\* socket.on('user-joined', userId): createPeerConnection(userId, true)
\*   part_001: always a new RTCPeerConnection, stored over whatever link
\*             there was, and an offer at once;  app.js: an existing link is
\*             kept as it is
OnUserJoined(p) ==
    /\ inbox[p] # << >>
    /\ Head(inbox[p]).ev = "user-joined"
    /\ LET q == Head(inbox[p]).from
           rest == [inbox EXCEPT ![p] = Tail(@)]
       IN IF build = "part_001"
          THEN /\ peers' = [peers EXCEPT ![p][q] =
                               NewLink(build, TRUE, "user-joined")]
               /\ inbox' = SendTo(rest, q, "offer", p)
               /\ pending' = [pending EXCEPT ![p][q] = @ + 1]
          ELSE /\ peers' = IF peers[p][q] = NoLink
                           THEN [peers EXCEPT ![p][q] =
                                    NewLink(build, TRUE, "user-joined")]
                           ELSE peers
               /\ inbox' = rest
               /\ pending' = pending
    /\ UNCHANGED <<build, members, dropped, emits>>
    /\ UNCHANGED <<relayVars, pageVars, siteVars>>

\* peer.onnegotiationneeded (app.js): createOffer, setLocalDescription, emit
\* offer.  The browser fires the event only in signaling state stable.
NegotiationNeeded(p, q) ==
    /\ peers[p][q] # NoLink
    /\ peers[p][q].nn
    /\ peers[p][q].signaling = "stable"
    /\ peers' = [peers EXCEPT ![p][q] =
                    [@ EXCEPT !.nn = FALSE, !.signaling = "have-local-offer",
                              !.local = TRUE, !.offered = TRUE]]
    /\ inbox' = SendTo(inbox, q, "offer", p)
    /\ pending' = [pending EXCEPT ![p][q] = @ + 1]
    /\ UNCHANGED <<build, members, dropped, emits>>
    /\ UNCHANGED <<relayVars, pageVars, siteVars>>

\* socket.on('offer', data): handleOffer.  A link is created (non-initiator)
\* if there is none.  setRemoteDescription(offer) on a link that has its own
\* offer pending rolls that offer back and succeeds in browsers that do the
\* implicit rollback, and rejects with InvalidStateError in the others; the
\* catch block then swallows the error and no answer is sent.
OnOffer(p, rollback) ==
    /\ inbox[p] # << >>
    /\ Head(inbox[p]).ev = "offer"
    /\ LET q == Head(inbox[p]).from
           rest == [inbox EXCEPT ![p] = Tail(@)]
           link == IF peers[p][q] = NoLink THEN NewLink(build, FALSE, "offer")
                   ELSE peers[p][q]
       IN IF link.signaling = "stable" \/ rollback
          THEN /\ peers' = [peers EXCEPT ![p][q] =
                               [link EXCEPT !.signaling = "stable",
                                            !.remote = TRUE, !.local = TRUE,
                                            !.nn = FALSE]]
               /\ inbox' = SendTo(rest, q, "answer", p)
          ELSE /\ peers' = [peers EXCEPT ![p][q] = link]
               /\ inbox' = rest
    /\ UNCHANGED <<build, members, pending, dropped, emits>>
    /\ UNCHANGED <<relayVars, pageVars, siteVars>>

\* socket.on('answer', data): handleAnswer.  setRemoteDescription(answer)
\* succeeds on a link whose offer is pending and rejects otherwise (caught).
OnAnswerDropped(p) ==
    /\ inbox[p] # << >>
    /\ Head(inbox[p]).ev = "answer"
    /\ inbox' = [inbox EXCEPT ![p] = Tail(@)]
    /\ UNCHANGED <<build, members, peers, pending, dropped, emits>>
    /\ UNCHANGED <<relayVars, pageVars, siteVars>>

OnAnswer(p) ==
    /\ inbox[p] # << >>
    /\ Head(inbox[p]).ev = "answer"
    /\ LET q == Head(inbox[p]).from
       IN /\ peers' = IF /\ peers[p][q] # NoLink
                         /\ peers[p][q].signaling = "have-local-offer"
                      THEN [peers EXCEPT ![p][q] =
                               [@ EXCEPT !.signaling = "stable",
                                         !.remote = TRUE]]
                      ELSE peers
          /\ pending' = [pending EXCEPT ![p][q] = IF @ > 0 THEN @ - 1 ELSE 0]
    /\ inbox' = [inbox EXCEPT ![p] = Tail(@)]
    /\ UNCHANGED <<build, members, dropped, emits>>
    /\ UNCHANGED <<relayVars, pageVars, siteVars>>

\* peer.onicecandidate: a link with a local description gathers a candidate
\* and the client emits it to the remote
Gather(p, q) ==
    /\ peers[p][q] # NoLink
    /\ peers[p][q].local
    /\ peers[p][q].gathered < MaxCandidates
    /\ peers' = [peers EXCEPT ![p][q].gathered = @ + 1]
    /\ inbox' = SendTo(inbox, q, "ice-candidate", p)
    /\ UNCHANGED <<build, members, pending, dropped, emits>>
    /\ UNCHANGED <<relayVars, pageVars, siteVars>>

\* socket.on('ice-candidate', data): handleIceCandidate.  Without a link for
\* the sender the handler returns; addIceCandidate on a link that has no
\* remote description rejects with InvalidStateError, which the catch block
\* logs.  Neither build keeps the candidate.
OnIceCandidate(p) ==
    /\ inbox[p] # << >>
    /\ Head(inbox[p]).ev = "ice-candidate"
    /\ LET q == Head(inbox[p]).from
       IN dropped' = IF peers[p][q] # NoLink /\ peers[p][q].remote
                     THEN dropped
                     ELSE [dropped EXCEPT ![p] = @ \cup {q}]
    /\ inbox' = [inbox EXCEPT ![p] = Tail(@)]
    /\ UNCHANGED <<build, members, peers, pending, emits>>
    /\ UNCHANGED <<relayVars, pageVars, siteVars>>

\* the transport of a negotiated link changes state: connectionState becomes
\* st and onconnectionstatechange runs.  part_001 updates the status line and
\* the chat; app.js registers no handler.  this.peers is not touched.
ConnectionStateChange(p, q, st) ==
    /\ peers[p][q] # NoLink
    /\ peers[p][q].local /\ peers[p][q].remote
    /\ \/ peers[p][q].conn = "new" /\ st \in {"connected", "failed"}
       \/ peers[p][q].conn = "connected" /\ st = "failed"
    /\ peers' = [peers EXCEPT ![p][q].conn = st]
    /\ UNCHANGED <<build, members, inbox, pending, dropped, emits>>
    /\ UNCHANGED <<relayVars, pageVars, siteVars>>

InitMesh ==
    /\ RelayInit
    /\ build \in MeshBuilds
    /\ MeshInit
    /\ PageInit
    /\ SiteIdle

\* every browser joins its room once
NextMeshOnce ==
    \/ \E p \in Clients : MeshJoin(p)
    \/ \E p \in Clients : OnRoomUsers(p)
    \/ \E p \in Clients : OnUserJoined(p)
    \/ \E p \in Clients : \E q \in Clients \ {p} : NegotiationNeeded(p, q)
    \/ \E p \in Clients, rollback \in BOOLEAN : OnOffer(p, rollback)
    \/ \E p \in Clients : OnAnswer(p)
    \/ \E p \in Clients : \E q \in Clients \ {p} : Gather(p, q)
    \/ \E p \in Clients : OnIceCandidate(p)
    \/ \E p \in Clients : \E q \in Clients \ {p}, st \in {"connected", "failed"} :
          ConnectionStateChange(p, q, st)

SpecMeshOnce == InitMesh /\ [][NextMeshOnce]_vars

\* what the relay's sockets and the browsers' event loops do by themselves:
\* a message on its way to a client is handed to its handler
MeshDelivery ==
    \/ \E p \in Clients : OnRoomUsers(p)
    \/ \E p \in Clients : OnUserJoined(p)
    \/ \E p \in Clients, rollback \in BOOLEAN : OnOffer(p, rollback)
    \/ \E p \in Clients : OnAnswer(p)
    \/ \E p \in Clients : OnIceCandidate(p)

\* every browser joins once and every message is delivered
SpecMeshOnceFair == SpecMeshOnce /\ WF_vars(MeshDelivery)

\* the same, and a client may emit join-room for its room again
NextMesh ==
    \/ \E p \in Clients : MeshJoin(p)
    \/ \E p \in Clients : MeshRejoin(p)
    \/ \E p \in Clients : OnRoomUsers(p)
    \/ \E p \in Clients : OnUserJoined(p)
    \/ \E p \in Clients : \E q \in Clients \ {p} : NegotiationNeeded(p, q)
    \/ \E p \in Clients, rollback \in BOOLEAN : OnOffer(p, rollback)
    \/ \E p \in Clients : OnAnswer(p)
    \/ \E p \in Clients : \E q \in Clients \ {p} : Gather(p, q)
    \/ \E p \in Clients : OnIceCandidate(p)
    \/ \E p \in Clients : \E q \in Clients \ {p}, st \in {"connected", "failed"} :
          ConnectionStateChange(p, q, st)

SpecMesh == InitMesh /\ [][NextMesh]_vars

\* ------------------------------------------------------------ the chat box
\* String.prototype.trim
RECURSIVE TrimLeft(_)
TrimLeft(t) == IF t # << >> /\ Head(t) = " " THEN TrimLeft(Tail(t)) ELSE t
RECURSIVE TrimRight(_)
TrimRight(t) ==
    IF t # << >> /\ t[Len(t)] = " " THEN TrimRight(SubSeq(t, 1, Len(t) - 1))
    ELSE t
Trim(t) == TrimRight(TrimLeft(t))

\* the socket.emit('chat-message', ..) calls of sendChatMessage for the
\* trimmed, non-empty message, with the data channel in state dc and
\* socket.connected = connected.
\*   part_001 and VideoChatApplication emit on the socket whatever else;
\*   YouTubeWatchTogether of app.js and part_000 send on the data channel if
\*   it is open, else emit on the socket if it is connected, else neither
SocketEmits(b, message, dc, connected) ==
    IF b \in {"part_001", "app.js/VideoChatApplication"}
    THEN << message >>
    ELSE IF dc = "open" THEN << >>
         ELSE IF connected THEN << message >> ELSE << >>

\* the dataChannel.send(..) calls of the same submission (part_001 walks
\* peerConnection.dataChannels, a property nothing sets)
ChannelSends(b, message, dc) ==
    IF b \in {"app.js", "part_000"} /\ dc = "open" THEN << message >>
    ELSE << >>

\* sendChatMessage(): the user submits the content of the message input
SendChatMessage(b, text, dc, connected) ==
    /\ LET message == Trim(text)
       IN chat' = [op |-> "send", build |-> b, text |-> text, dc |-> dc,
                   connected |-> connected,
                   emitted |-> IF message = << >> THEN << >>
                               ELSE SocketEmits(b, message, dc, connected),
                   channel |-> IF message = << >> THEN << >>
                               ELSE ChannelSends(b, message, dc)]
    /\ UNCHANGED <<player, vs, syncVars>>
    /\ UNCHANGED <<relayVars, meshVars, siteVars>>

InitPage ==
    /\ RelayInit
    /\ build = "part_001"
    /\ MeshInit
    /\ PageInit
    /\ SiteIdle

NextChat ==
    \E b \in ChatBuilds, text \in Texts, dc \in ChannelStates,
       connected \in BOOLEAN : SendChatMessage(b, text, dc, connected)

SpecChat == InitPage /\ [][NextChat]_vars

\* ------------------------------------------------------------- the player
\* the drift a revision tolerates before it seeks, in tenths of a second
Threshold(b) ==
    IF b = "part_001" THEN 5 ELSE IF b = "part_000" THEN 20 ELSE 10

\* Math.abs(a - b)
Abs(a, b) == IF a >= b THEN a - b ELSE b - a

\* Math.abs(this.player.getCurrentTime() - data.currentTime) > threshold
DriftedOrNot(b, local, remote) == Abs(local, remote) >= 0
Drifted(b, local, remote) == Abs(local, remote) > Threshold(b)

\* the player calls of handleVideoStateChange(data), in order.  part_001 seeks
\* before it looks at data.state; the other two seek inside the PLAYING and
\* PAUSED branches only.  playerState is read before the seek.
PlayerCalls(b, pl, data) ==
    LET seeks == b = "part_001" \/ data.state \in {"PLAYING", "PAUSED"}
        seek == IF seeks /\ Drifted(b, pl.time, data.currentTime)
                THEN << [fn |-> "seekTo", arg |-> data.currentTime] >>
                ELSE << >>
        rest == IF data.state = "PLAYING" /\ pl.state # "PLAYING"
                THEN << [fn |-> "playVideo", arg |-> 0] >>
                ELSE IF data.state = "PAUSED" /\ pl.state # "PAUSED"
                THEN << [fn |-> "pauseVideo", arg |-> 0] >>
                ELSE IF data.state = "CUED" /\ pl.videoId # data.videoId
                THEN << [fn |-> "loadVideoById", arg |-> data.videoId] >>
                ELSE << >>
    IN seek \o rest

\* what one call does to the YouTube player once it has settled
Call(pl, call) ==
    IF call.fn = "seekTo" THEN [pl EXCEPT !.time = call.arg]
    ELSE IF call.fn = "playVideo" THEN [pl EXCEPT !.state = "PLAYING"]
    ELSE IF call.fn = "pauseVideo" THEN [pl EXCEPT !.state = "PAUSED"]
    ELSE [state |-> "PLAYING", time |-> 0, videoId |-> call.arg]

RECURSIVE Settle(_, _)
Settle(pl, calls) ==
    IF calls = << >> THEN pl ELSE Settle(Call(pl, Head(calls)), Tail(calls))

\* a player state-change event waiting for onPlayerStateChange: event.data
\* and what made the player change ("remote": a call of
\* handleVideoStateChange, "user": the user's click)
Event(state, cause) == [state |-> state, cause |-> cause]

\* the state-change events the YouTube player fires for the calls of one
\* handleVideoStateChange, the player ending in state `after`: nothing when
\* nothing was called; BUFFERING and then the final state when the player has
\* to buffer (never for a lone pauseVideo); the final state alone when a
\* call changed the state; nothing for a seek that changes no state
Buffers(calls) == \E i \in 1..Len(calls) : calls[i].fn # "pauseVideo"
Changes(calls) == \E i \in 1..Len(calls) : calls[i].fn # "seekTo"
EventsOf(calls, after, buffering) ==
    IF buffering /\ Buffers(calls)
    THEN << Event("BUFFERING", "remote"), Event(after.state, "remote") >>
    ELSE IF Changes(calls) THEN << Event(after.state, "remote") >>
    ELSE << >>

\* socket.on('video-state') -> handleVideoStateChange(data), and the player
\* carrying out the calls.  The handler sets window.ignorePlayerStateChange;
\* part_001 also arms a timer that clears it after 500 ms.  vs keeps the
\* payload, the player as the handler found it, the calls, and whether the
\* payload before was the same one.  The state-change events of the calls
\* come later, from the player (PlayerReacts).
HandleVideoState(b, data) ==
    /\ inputs < MaxInputs
    /\ inputs' = inputs + 1
    /\ LET calls == PlayerCalls(b, player, data)
       IN /\ vs' = [op |-> "video-state", build |-> b, data |-> data,
                    before |-> player, calls |-> calls,
                    repeat |-> vs.op = "video-state" /\ vs.data = data
                               /\ vs.build = b]
          /\ player' = Settle(player, calls)
    /\ ignore' = TRUE
    /\ timers' = IF b = "part_001" THEN timers \cup {now + GuardWindow}
                 ELSE timers
    /\ pe' = [op |-> "applied"]
    /\ UNCHANGED <<chat, page, now, events, sync>>
    /\ UNCHANGED <<relayVars, meshVars, siteVars>>

\* the YouTube player fires the state-change events of the calls the last
\* handleVideoStateChange made
PlayerReacts(buffering) ==
    /\ pe.op = "applied"
    /\ vs.calls # << >>
    /\ LET fired == EventsOf(vs.calls, player, buffering)
       IN /\ Len(events) + Len(fired) <= MaxPending
          /\ events' = events \o fired
    /\ pe' = [op |-> "fired"]
    /\ UNCHANGED <<chat, player, vs, page, now, ignore, timers, sync, inputs>>
    /\ UNCHANGED <<relayVars, meshVars, siteVars>>

\* setTimeout(() => { window.ignorePlayerStateChange = false }, 500) is due
TimerFires(t) ==
    /\ t \in timers
    /\ t <= now
    /\ ignore' = FALSE
    /\ timers' = timers \ {t}
    /\ UNCHANGED <<chat, player, vs, page, now, events, sync, pe, inputs>>
    /\ UNCHANGED <<relayVars, meshVars, siteVars>>

\* 100 ms pass; callbacks that are due run before the clock moves on
Advance ==
    /\ now < MaxNow
    /\ \A t \in timers : t > now
    /\ now' = now + 1
    /\ UNCHANGED <<chat, player, vs, page, ignore, timers, events, sync, pe,
                   inputs>>
    /\ UNCHANGED <<relayVars, meshVars, siteVars>>

\* the user clicks play or pause in the player: the player changes state and
\* fires PLAYING (after BUFFERING if it has to buffer) or PAUSED
UserToggle(buffering) ==
    /\ inputs < MaxInputs
    /\ inputs' = inputs + 1
    /\ LET fired == IF player.state = "PLAYING"
                    THEN << Event("PAUSED", "user") >>
                    ELSE IF buffering
                    THEN << Event("BUFFERING", "user"),
                            Event("PLAYING", "user") >>
                    ELSE << Event("PLAYING", "user") >>
       IN /\ Len(events) + Len(fired) <= MaxPending
          /\ events' = events \o fired
    /\ player' = [player EXCEPT !.state = IF @ = "PLAYING" THEN "PAUSED"
                                          ELSE "PLAYING"]
    /\ UNCHANGED <<chat, vs, page, now, ignore, timers, sync, pe>>
    /\ UNCHANGED <<relayVars, meshVars, siteVars>>

\* if (now - this.lastSyncTime < this.syncThrottle) return;   (part_001 only)
ThrottledNever(b, t, lastSync) == FALSE
Throttled(b, t, lastSync) == b = "part_001" /\ t - lastSync < SyncThrottle

\* "Only send if the state has actually changed" (part_001 only): the event
\* is new against this.lastVideoState
Fresh(b, lvs, state, time) ==
    \/ b # "part_001"
    \/ lvs = NoVideoState
    \/ lvs.state # state
    \/ Abs(lvs.currentTime, time) > 5

\* onPlayerStateChange(event) for the oldest undelivered event.  pe records
\* the event, when it was handled, what became of it ("throttled",
\* "suppressed", "stale", "unsent" for a state that is never sent,
\* "emitted": socket.emit('video-state', ..)), how long ago the emission
\* before it was made (a set: empty before the first emission), and whether it is the first event since a remote video-state
\* that called nothing on the player.
OnPlayerStateChange(b) ==
    /\ events # << >>
    /\ LET e == Head(events)
           throttled == Throttled(b, now, sync.lastSyncTime)
           suppressed == ~page.isConnected \/ ignore
           fresh == Fresh(b, sync.lastVideoState, e.state, player.time)
           sendable == e.state \in {"PLAYING", "PAUSED"}
           outcome == IF throttled THEN "throttled"
                      ELSE IF suppressed THEN "suppressed"
                      ELSE IF ~fresh THEN "stale"
                      ELSE IF sendable THEN "emitted" ELSE "unsent"
       IN /\ pe' = [op |-> "event", build |-> b, state |-> e.state,
                    cause |-> e.cause, outcome |-> outcome,
                    flagged |-> ignore,
                    sinceEmit |-> {now - t : t \in sync.lastEmitAt},
                    afterNoOp |-> pe.op = "applied" /\ vs.calls = << >>]
          /\ ignore' = IF outcome = "suppressed" THEN FALSE ELSE ignore
          /\ sync' = [lastSyncTime |->
                          IF b = "part_001" /\ ~throttled THEN now
                          ELSE sync.lastSyncTime,
                      lastVideoState |->
                          IF b = "part_001" /\ outcome \in {"emitted", "unsent"}
                          THEN [state |-> e.state, currentTime |-> player.time]
                          ELSE sync.lastVideoState,
                      lastEmitAt |->
                          IF outcome = "emitted" THEN {now}
                          ELSE sync.lastEmitAt]
    /\ events' = Tail(events)
    /\ UNCHANGED <<chat, player, vs, page, now, timers, inputs>>
    /\ UNCHANGED <<relayVars, meshVars, siteVars>>

\* playback goes on: the position of a playing video moves forward
Tick ==
    /\ player.state = "PLAYING"
    /\ \E t \in Times :
          /\ t > player.time
          /\ \A u \in Times : u > player.time => t <= u
          /\ player' = [player EXCEPT !.time = t]
    /\ UNCHANGED <<chat, vs, syncVars>>
    /\ UNCHANGED <<relayVars, meshVars, siteVars>>

\* remote states of any kind handled by a page of any revision
NextPlayer ==
    \/ \E b \in PlayerBuilds, st \in RemoteStates, t \in Times,
          v \in VideoIds :
          HandleVideoState(b, [state |-> st, currentTime |-> t, videoId |-> v])
    \/ Tick

SpecPlayer == InitPage /\ [][NextPlayer]_vars

\* one page of one revision, its user, its clock, and a peer that plays and
\* pauses the same video three seconds in
InitSync ==
    /\ RelayInit
    /\ build = "part_001"
    /\ MeshInit
    /\ SiteIdle
    /\ PageIdle
    /\ page \in [rev : PlayerBuilds, isConnected : {TRUE}]

NextSync ==
    \/ \E st \in {"PLAYING", "PAUSED"} :
          HandleVideoState(page.rev,
                           [state |-> st, currentTime |-> 30, videoId |-> "v1"])
    \/ \E buffering \in BOOLEAN : PlayerReacts(buffering)
    \/ OnPlayerStateChange(page.rev)
    \/ \E buffering \in BOOLEAN : UserToggle(buffering)
    \/ \E t \in timers : TimerFires(t)
    \/ Advance

SpecSync == InitSync /\ [][NextSync]_vars

\* ------------------------------------------------ the start of the app page

\* !v of JavaScript for what localStorage and JSON.parse hand back
Falsy(v) == v \in {Null, "", "parsed:null", "parsed:false"}

\* JSON.parse(user) throws a SyntaxError
Throws(user) == user \in {"", "{bad"}

\* JSON.parse(user) when it does not throw
JsonParse(user) ==
    CASE user = "null" -> "parsed:null"
      [] user = "false" -> "parsed:false"
      [] user = "{}" -> "parsed:{}"
      [] OTHER -> "parsed:user"

\* the gate without its test of the token
CheckAuthUserOnly(token, user) ==
    IF Falsy(user) THEN Null
    ELSE IF Throws(user) THEN Null ELSE JsonParse(user)

\* AuthManager.checkAuth()
CheckAuth(token, user) ==
    IF Falsy(token) \/ Falsy(user) THEN Null
    ELSE IF Throws(user) THEN Null ELSE JsonParse(user)

\* init() of the application class: the gate, updateUserInterface (which
\* reads currentUser.username.charAt and throws when the record has no
\* username and the page has the element), and then the socket: at once
\* where io is loaded, after getUserMedia in VideoChatApplication, after a
\* retry timer where io is not loaded yet
AppInit(dom, io) ==
    /\ auth.pc = "unloaded"
    /\ LET user == CheckAuth(auth.token, auth.user)
           seen == [token |-> auth.token, user |-> auth.user]
           late == auth.rev = "app.js/VideoChatApplication"
                   \/ (~io /\ auth.rev \in {"part_000", "part_001"})
       IN auth' = [auth EXCEPT
             !.currentUser = user,
             !.checked = seen,
             !.pc = IF Falsy(user) THEN "gated"
                    ELSE IF dom /\ user # "parsed:user" THEN "threw"
                    ELSE IF late THEN "waiting"
                    ELSE "socket",
             !.socket = ~Falsy(user) /\ ~(dom /\ user # "parsed:user")
                        /\ ~late]
    /\ UNCHANGED <<sp, accounts>>
    /\ UNCHANGED <<relayVars, meshVars, pageVars>>

\* the rest of init(): initializeSocket() after the await, or tryConnect
\* from its timer (it gives up after maxRetries)
TryConnect(io) ==
    /\ auth.pc = "waiting"
    /\ auth' = IF io \/ auth.rev = "app.js/VideoChatApplication"
               THEN [auth EXCEPT !.pc = "socket", !.socket = TRUE]
               ELSE IF auth.retries < MaxRetries
                    THEN [auth EXCEPT !.retries = @ + 1]
                    ELSE [auth EXCEPT !.pc = "gave-up"]
    /\ UNCHANGED <<sp, accounts>>
    /\ UNCHANGED <<relayVars, meshVars, pageVars>>

\* socket.on('connect'): emit join-room
OnConnect ==
    /\ auth.pc = "socket"
    /\ auth' = [auth EXCEPT !.pc = "joined", !.joined = TRUE]
    /\ UNCHANGED <<sp, accounts>>
    /\ UNCHANGED <<relayVars, meshVars, pageVars>>

\* handleAuth of the auth page after a good response: the credentials are
\* stored and the browser goes to the app page
StoreCredentials(user) ==
    /\ auth.pc # "unloaded"
    /\ auth' = Unloaded("jwt", user, auth.rev)
    /\ UNCHANGED <<sp, accounts>>
    /\ UNCHANGED <<relayVars, meshVars, pageVars>>

\* AuthManager.logout(): both keys removed, the browser leaves the page
Logout ==
    /\ auth.pc # "unloaded"
    /\ auth' = Unloaded(Null, Null, auth.rev)
    /\ UNCHANGED <<sp, accounts>>
    /\ UNCHANGED <<relayVars, meshVars, pageVars>>

\* the app page over any storage the browser may hold
InitAuth ==
    /\ RelayInit
    /\ build = "part_001"
    /\ MeshInit
    /\ PageInit
    /\ SingleIdle
    /\ AccountsIdle
    /\ \E t \in Tokens, u \in StoredUsers, b \in AppBuilds :
          auth = Unloaded(t, u, b)

NextAuth ==
    \/ \E dom \in BOOLEAN, io \in BOOLEAN : AppInit(dom, io)
    \/ \E io \in BOOLEAN : TryConnect(io)
    \/ OnConnect
    \/ \E u \in ResultUsers : StoreCredentials(u)
    \/ Logout

SpecAuth == InitAuth /\ [][NextAuth]_vars

\* ------------------------------------------------------------------ signup

\* app.post('/api/auth/signup') up to its await: 400 for a missing field,
\* 409 when users.has(email), else the handler waits for bcrypt.hash
Signup(r, username, email, password) ==
    /\ accounts.req[r].pc = "idle"
    /\ LET missing == Null \in {username, email, password}
           taken == ~missing /\ accounts.users[email] # NoUser
       IN accounts' = [accounts EXCEPT !.req[r] =
             [pc |-> IF missing \/ taken THEN "done" ELSE "hashing",
              email |-> email,
              password |-> password,
              code |-> IF missing THEN 400 ELSE IF taken THEN 409 ELSE 0,
              token |-> Null]]
    /\ UNCHANGED <<auth, sp>>
    /\ UNCHANGED <<relayVars, meshVars, pageVars>>

\* the handler after the await: users.set(email, user) with a new id, and
\* the token in the response; 500 when bcrypt.hash rejected
Hashed(r) ==
    /\ accounts.req[r].pc = "hashing"
    /\ LET q == accounts.req[r]
       IN IF q.password = "number"
          THEN accounts' = [accounts EXCEPT
                  !.req[r] = [q EXCEPT !.pc = "done", !.code = 500]]
          ELSE accounts' = [accounts EXCEPT
                  !.users[q.email] = [id |-> accounts.ids + 1],
                  !.ids = @ + 1,
                  !.overwritten = IF accounts.users[q.email] # NoUser
                                  THEN @ \cup {q.email} ELSE @,
                  !.req[r] = [q EXCEPT !.pc = "done", !.code = 200,
                                       !.token = "jwt"]]
    /\ UNCHANGED <<auth, sp>>
    /\ UNCHANGED <<relayVars, meshVars, pageVars>>

InitSignup ==
    /\ RelayInit
    /\ build = "part_001"
    /\ MeshInit
    /\ PageInit
    /\ SiteIdle

NextSignup ==
    \/ \E r \in Requests, u \in {Null, "ann"}, e \in Emails, pw \in Passwords :
          Signup(r, u, e, pw)
    \/ \E r \in Requests : Hashed(r)

SpecSignup == InitSignup /\ [][NextSignup]_vars

\* ---------------------------------------------------- the single-peer client
\* YouTubeWatchTogether of part_000 and of app.js: one RTCPeerConnection for
\* the room.  peerConnection says whether this.peerConnection is set, nn that
\* its negotiationneeded event is due, op the handler that ran last and
\* connect whether that handler called connect().

SingleBuilds == {"part_000", "app.js"}
\* clicks on the Connect button, per client
MaxClicks == 1

\* connect(): setupPeerConnection() unless there is a peerConnection; the new
\* connection's data channel makes the browser fire negotiationneeded
Connected(c) == [c EXCEPT !.nn = @ \/ ~c.peerConnection,
                          !.peerConnection = TRUE,
                          !.connect = TRUE]

\* a handler that ran without calling connect()
Ran(c, op) == [c EXCEPT !.op = op, !.connect = FALSE]

\* socket.on('room-users', users)
SingleOnRoomUsers(p) ==
    /\ inbox[p] # << >>
    /\ Head(inbox[p]).ev = "room-users"
    /\ LET users == Head(inbox[p]).users
           c == [Ran(sp[p], "room-users") EXCEPT
                    !.isOfferer = (Len(users) = 0),
                    !.peers = IF sp[p].rev = "app.js" THEN users ELSE @]
       IN sp' = [sp EXCEPT ![p] =
                   IF Len(users) > 0 /\ c.isOfferer /\ ~c.peerConnection
                   THEN Connected(c) ELSE c]
    /\ inbox' = [inbox EXCEPT ![p] = Tail(@)]
    /\ UNCHANGED <<auth, accounts>>
    /\ UNCHANGED <<build, members, peers, pending, dropped, emits>>
    /\ UNCHANGED <<relayVars, pageVars>>

\* socket.on('user-joined', userId): app.js notes the peer and connects when
\* it is the offerer without a connection; part_000 only shows a message
SingleOnUserJoined(p) ==
    /\ inbox[p] # << >>
    /\ Head(inbox[p]).ev = "user-joined"
    /\ LET q == Head(inbox[p]).from
           c == Ran(sp[p], "user-joined")
           d == [c EXCEPT !.peers = IF Includes(@, q) THEN @
                                    ELSE Append(@, q)]
       IN sp' = [sp EXCEPT ![p] =
                   IF c.rev = "part_000" THEN c
                   ELSE IF d.isOfferer /\ ~d.peerConnection
                        THEN Connected(d) ELSE d]
    /\ inbox' = [inbox EXCEPT ![p] = Tail(@)]
    /\ UNCHANGED <<auth, accounts>>
    /\ UNCHANGED <<build, members, peers, pending, dropped, emits>>
    /\ UNCHANGED <<relayVars, pageVars>>

\* socket.on('user-left', userId)
SingleOnUserLeft(p) ==
    /\ inbox[p] # << >>
    /\ Head(inbox[p]).ev = "user-left"
    /\ LET q == Head(inbox[p]).from
           c == Ran(sp[p], "user-left")
       IN sp' = [sp EXCEPT ![p] =
                   [c EXCEPT !.peers = IF c.rev = "app.js"
                                       THEN Without(@, q) ELSE @]]
    /\ inbox' = [inbox EXCEPT ![p] = Tail(@)]
    /\ UNCHANGED <<auth, accounts>>
    /\ UNCHANGED <<build, members, peers, pending, dropped, emits>>
    /\ UNCHANGED <<relayVars, pageVars>>

\* toggleConnection(), the Connect button: disconnect() when isConnected
\* (which needs a peerConnection), else connect()
ToggleConnection(p, isConnected) ==
    /\ Includes(members, p)
    /\ sp[p].clicks < MaxClicks
    /\ isConnected => sp[p].peerConnection
    /\ sp' = [sp EXCEPT ![p] =
                IF isConnected
                THEN [Ran(@, "toggle") EXCEPT !.peerConnection = FALSE,
                                              !.nn = FALSE,
                                              !.clicks = @ + 1]
                ELSE [Connected(@) EXCEPT !.op = "toggle",
                                          !.clicks = @ + 1]]
    /\ UNCHANGED <<auth, accounts>>
    /\ UNCHANGED meshVars
    /\ UNCHANGED <<relayVars, pageVars>>

\* peerConnection.onnegotiationneeded: createOffer() by the offerer, sent to
\* the room (part_000) or to every id in this.peers (app.js)
SingleNegotiationNeeded(p) ==
    /\ sp[p].peerConnection
    /\ sp[p].nn
    /\ sp' = [sp EXCEPT ![p] = [Ran(@, "negotiationneeded") EXCEPT
                                   !.nn = FALSE]]
    /\ inbox' = [q \in Clients |->
          IF /\ sp[p].isOfferer
             /\ q # p
             /\ Includes(members, p)
             /\ IF sp[p].rev = "app.js" THEN Includes(sp[p].peers, q)
                ELSE Includes(members, q)
          THEN Append(inbox[q], Msg("offer", p, << >>))
          ELSE inbox[q]]
    /\ UNCHANGED <<auth, accounts>>
    /\ UNCHANGED <<build, members, peers, pending, dropped, emits>>
    /\ UNCHANGED <<relayVars, pageVars>>

\* socket.on('offer'): handleOffer sets up a connection if there is none and
\* answers the sender
SingleOnOffer(p) ==
    /\ inbox[p] # << >>
    /\ Head(inbox[p]).ev = "offer"
    /\ sp' = [sp EXCEPT ![p] = [Ran(@, "offer") EXCEPT
                                   !.peerConnection = TRUE]]
    /\ inbox' = SendTo([inbox EXCEPT ![p] = Tail(@)],
                       Head(inbox[p]).from, "answer", p)
    /\ UNCHANGED <<auth, accounts>>
    /\ UNCHANGED <<build, members, peers, pending, dropped, emits>>
    /\ UNCHANGED <<relayVars, pageVars>>

\* socket.on('answer'): handleAnswer
SingleOnAnswer(p) ==
    /\ inbox[p] # << >>
    /\ Head(inbox[p]).ev = "answer"
    /\ sp' = [sp EXCEPT ![p] = Ran(@, "answer")]
    /\ inbox' = [inbox EXCEPT ![p] = Tail(@)]
    /\ UNCHANGED <<auth, accounts>>
    /\ UNCHANGED <<build, members, peers, pending, dropped, emits>>
    /\ UNCHANGED <<relayVars, pageVars>>

\* the client's socket closes: the relay's disconnect handler takes it off
\* the users list and tells the others user-left; what was on its way to the
\* client is lost; the client keeps its fields and may connect again
SingleLeave(p) ==
    /\ Includes(members, p)
    /\ members' = Without(members, p)
    /\ inbox' = [q \in Clients |->
          IF q = p THEN << >>
          ELSE IF Includes(members, q)
               THEN Append(inbox[q], Msg("user-left", p, << >>))
               ELSE inbox[q]]
    /\ sp' = [sp EXCEPT ![p] = Ran(@, "disconnect")]
    /\ UNCHANGED <<auth, accounts>>
    /\ UNCHANGED <<build, peers, pending, dropped, emits>>
    /\ UNCHANGED <<relayVars, pageVars>>

\* the client has not connected its socket yet
Unjoined(p) == sp[p].op = "none" /\ ~Includes(members, p)

\* socket.on('connect'): the client emits join-room, the first time and after
\* every reconnect.  Reconnects stop while the join-room events left are
\* needed for the clients that have not joined at all.
SingleJoin(p) ==
    /\ Unjoined(p) \/
          emits + Cardinality({q \in Clients : Unjoined(q)}) < MaxEmits
    /\ RelayJoin(p)

InitSingle ==
    /\ RelayInit
    /\ build = "part_001"
    /\ MeshInit
    /\ PageInit
    /\ auth = Unloaded("jwt", "{\"username\":\"ann\"}", "part_000")
    /\ AccountsIdle
    /\ \E b \in SingleBuilds :
          sp = [p \in Clients |->
                  [rev |-> b, isOfferer |-> FALSE, peerConnection |-> FALSE,
                   nn |-> FALSE, peers |-> << >>, op |-> "none",
                   connect |-> FALSE, clicks |-> 0]]

\* what the relay and the browsers do by themselves
SingleDelivery ==
    \/ \E p \in Clients : SingleOnRoomUsers(p)
    \/ \E p \in Clients : SingleOnUserJoined(p)
    \/ \E p \in Clients : SingleOnUserLeft(p)
    \/ \E p \in Clients : SingleNegotiationNeeded(p)
    \/ \E p \in Clients : SingleOnOffer(p)
    \/ \E p \in Clients : SingleOnAnswer(p)

NextSingle ==
    \/ \E p \in Clients : SingleJoin(p)
    \/ \E p \in Clients : SingleLeave(p)
    \/ \E p \in Clients, c \in BOOLEAN : ToggleConnection(p, c)
    \/ SingleDelivery

SpecSingle == InitSingle /\ [][NextSingle]_vars

\* every message is delivered and every client joins; leaving, joining again
\* and the Connect button are up to the users
SpecSingleFair ==
    /\ SpecSingle
    /\ WF_vars(SingleDelivery)
    /\ \A p \in Clients : WF_vars(Unjoined(p) /\ SingleJoin(p))

\* the room-users handler called connect()
StartedOnRoomUsers ==
    \E p \in Clients : sp[p].op = "room-users" /\ sp[p].connect

\* the room-users handler never calls connect(): an invariant of SpecSingle,
\* because isOfferer is set to users.length === 0 just before the test
NeverStartsOnRoomUsers == ~StartedOnRoomUsers

TypeOK ==
    /\ status \in [Conns -> {"new", "connected", "closed", "down"}]
    /\ \A c \in Conns : sids[c] \subseteq RoomIds \cup Conns
    /\ roomId \in [Conns -> RoomIds]
    /\ DOMAIN rooms \subseteq RoomIds
    /\ joins \in 0..MaxJoins
\* ------------------------------------------------- vocabulary of the claims
\* the connections that are open
Live == {c \in Conns : status[c] = "connected"}

\* the connections currently joined to room r (connection registry)
InRoom(r) == {c \in Live : roomId[c] = r}

\* how many ev packets the last handler delivered to connection c
Count(c, ev) ==
    Cardinality({i \in 1..Len(out) : out[i].ev = ev /\ c \in out[i].rcpt})

\* the registry rooms whose users list holds c
ListedIn(c) == {r \in DOMAIN rooms : Includes(rooms[r], c)}

\* C1: every connection id is in the users list of at most one room of the
\* registry, whatever join-room and disconnect events were handled.
C1_AtMostOneRoom ==
    \A c \in Conns : Cardinality(ListedIn(c)) <= 1

\* C2: no room record persists once all its members have left, by disconnect
\* or by joining another room: every room of the registry has a connection
\* that is currently joined to it.
C2_NoRoomWithoutMembers ==
    \A r \in DOMAIN rooms : InRoom(r) # {}

\* C3: once the disconnect of a connection that had joined a room is handled,
\* its id is in no users list and every connection still in that room got one
\* user-left carrying the id.
C3_DisconnectCleansUp ==
    (last.op = "disconnect" /\ Truthy(last.arg)) =>
        /\ ListedIn(last.conn) = {}
        /\ \A d \in InRoom(last.arg) : Count(d, "user-left") = 1
        /\ \A i \in 1..Len(out) : out[i].data = last.conn

\* C4: an offer, answer or ice-candidate from S with target = X, X a live
\* connection other than S, is delivered to X exactly once and to no other
\* connection.
C4_DirectedToTargetOnly ==
    (last.op \in SignalEvents /\ last.arg \in Live \ {last.conn}) =>
        /\ Len(out) = 1
        /\ out[1].ev = last.op
        /\ out[1].rcpt = {last.arg}

\* C5: an offer, answer or ice-candidate that carries a target, whatever its
\* value, is delivered to at most one connection.
C5_AtMostOneDestination ==
    last.op \in SignalEvents =>
        Cardinality({c \in Conns : Count(c, last.op) > 0}) <= 1

\* C6: the relay forwards an offer, answer or ice-candidate only when the
\* sender is a member of a room, and only to members of the sender's room.
C6_SenderAndTargetShareRoom ==
    last.op \in SignalEvents =>
        \A d \in Conns : Count(d, last.op) > 0 =>
            /\ Truthy(roomId[last.conn])
            /\ d \in InRoom(roomId[last.conn])

\* C7: a chat-message from S joined to room R reaches every other connection
\* joined to R exactly once, never S, never a connection outside R; from a
\* connection that joined no room it reaches nobody.
C7_ChatBroadcastExclusion ==
    last.op = "chat-message" =>
        \A d \in Conns :
            Count(d, "chat-message") =
                IF /\ Truthy(roomId[last.conn])
                   /\ d \in InRoom(roomId[last.conn]) \ {last.conn}
                THEN 1 ELSE 0

\* C8: a video-state from S joined to room R is relayed exactly once to every
\* other connection joined to R, with sender = S, and never to S.
C8_VideoStateRelayed ==
    (last.op = "video-state" /\ Truthy(roomId[last.conn])) =>
        /\ \A d \in InRoom(roomId[last.conn]) \ {last.conn} :
              Count(d, "video-state") = 1
        /\ Count(last.conn, "video-state") = 0
        /\ \A i \in 1..Len(out) : out[i].data.sender = last.conn

\* the elements of a users list
Range(users) == {users[i] : i \in 1..Len(users)}

\* C9: when C joins room R, C gets exactly one room-users listing exactly the
\* other current members of R (each once), each of them gets exactly one
\* user-joined carrying C, and nobody else gets either message.  (The order
\* of the list is left open here: the membership of the list already decides
\* the property.)
C9_JoinSnapshot ==
    (last.op = "join-room" /\ Truthy(last.arg)) =>
        LET C == last.conn
            others == InRoom(last.arg) \ {C}
        IN /\ \A d \in Conns :
                 /\ Count(d, "room-users") = IF d = C THEN 1 ELSE 0
                 /\ Count(d, "user-joined") = IF d \in others THEN 1 ELSE 0
           /\ \A i \in 1..Len(out) :
                 /\ out[i].ev = "room-users" =>
                       /\ Range(out[i].data) = others
                       /\ Len(out[i].data) = Cardinality(others)
                 /\ out[i].ev = "user-joined" => out[i].data = C

\* C10: handling disconnect a second time for the same connection leaves the
\* registry as the first handling left it and emits no second user-left.
C10_SecondDisconnectIsNoOp ==
    [][\A c \in Conns : DisconnectAgain(c) =>
          /\ rooms' = rooms
          /\ \A d \in Conns : Count(d, "user-left")' = 0]_vars

\* C11: a join-room whose room id is empty or undefined is rejected: it
\* creates no room record, lists the connection in no users list, joins the
\* connection to nothing, and emits neither room-users nor user-joined.
C11_FalsyJoinRejected ==
    (last.op = "join-room" /\ ~Truthy(last.arg)) =>
        /\ \A r \in DOMAIN rooms : Truthy(r)
        /\ last.arg \notin sids[last.conn]
        /\ \A d \in Conns :
              Count(d, "room-users") = 0 /\ Count(d, "user-joined") = 0

\* C12: no message a client can send (a join-room without id, a directed
\* message to an unknown target, an offer, answer, ice-candidate or
\* chat-message with no payload object) takes the relay down: the process
\* never exits while connections are open or still to come.
C12_RelayNeverCrashes ==
    \A c \in Conns : status[c] # "down"

\* C13: every offer, answer, ice-candidate and video-state the relay sends on
\* carries sender = the id of the connection that emitted it, whatever sender
\* the client put into the payload, and the offer / answer / candidate blob
\* is the one the client sent.
C13_SenderIsEmitter ==
    (last.op \in SignalEvents \cup {"video-state"}) =>
        \A i \in 1..Len(out) :
            /\ out[i].ev = last.op
            /\ out[i].data.sender = last.conn
            /\ last.op \in SignalEvents => out[i].data.blob = last.data.blob
            /\ last.op = "video-state" => out[i].data.state = last.data.state

\* a delivered offer whose payload named another connection as its sender
C13_Witness ==
    /\ last.op = "offer"
    /\ last.data.sender \in Conns \ {last.conn}
    /\ last.data.blob = "sdp'"
    /\ Len(out) = 1
    /\ out[1].rcpt # {}
    /\ out[1].data = [blob |-> "sdp'", sender |-> last.conn]

\* the links the mesh clients hold
Links == {pq \in Clients \X Clients : peers[pq[1]][pq[2]] # NoLink}

\* C14: when B joins a room that holds A, the link B creates on room-users is
\* a non-initiator and never sends an offer to A, the link A creates on
\* user-joined is the initiator, and so at most one side of a pair has sent
\* an offer.
C14_OneSideOffers ==
    /\ \A pq \in Links :
          LET link == peers[pq[1]][pq[2]]
          IN /\ link.via = "room-users" =>
                   ~link.initiator /\ ~link.offered /\ ~link.nn
             /\ link.via = "user-joined" => link.initiator
    /\ \A pq \in Links :
          <<pq[2], pq[1]>> \in Links =>
             ~(peers[pq[1]][pq[2]].offered /\ peers[pq[2]][pq[1]].offered)

\* C15: no ice-candidate a client receives is thrown away: one that arrives
\* before the link for its sender exists, or before that link has a remote
\* description, is kept and applied later.
C15_NoCandidateDropped ==
    \A p \in Clients : dropped[p] = {}

\* C17: no entry of a client's peers map is a link whose transport is failed
\* or closed: such a link is closed and its entry removed.
C17_NoTerminalLinkInPeers ==
    \A pq \in Links : peers[pq[1]][pq[2]].conn \notin {"failed", "closed"}

\* C18: a client never has two offers of its own outstanding for the same
\* remote id.
C18_OneOfferOutstanding ==
    \A p \in Clients, q \in Clients : pending[p][q] <= 1

\* C16: in every client revision a chat message that is not empty, submitted
\* while the signaling socket is connected, makes the client emit exactly one
\* chat-message on the socket, whatever the state of the data channel.
C16_ChatAlwaysOnSocket ==
    (chat.op = "send" /\ Trim(chat.text) # << >> /\ chat.connected) =>
        chat.emitted = << Trim(chat.text) >>

\* C19: on a remote PLAYING or PAUSED video-state the client calls
\* seekTo(remote position) exactly when the local position is more than 1.0 s
\* away from it, and before any playVideo / pauseVideo; within 1.0 s it does
\* not seek.
C19_SeekBeyondOneSecond ==
    (vs.op = "video-state" /\ vs.data.state \in {"PLAYING", "PAUSED"}) =>
        LET seek == [fn |-> "seekTo", arg |-> vs.data.currentTime]
            far == Abs(vs.before.time, vs.data.currentTime) > 10
        IN /\ far => vs.calls # << >> /\ vs.calls[1] = seek
           /\ ~far => \A i \in 1..Len(vs.calls) : vs.calls[i].fn # "seekTo"
           /\ \A i \in 2..Len(vs.calls) : vs.calls[i].fn # "seekTo"

\* the player is in the state, at the position and on the video that the
\* payload asks for
Reached(pl, data) ==
    /\ pl.state = data.state
    /\ pl.time = data.currentTime
    /\ pl.videoId = data.videoId

\* C20: a remote video-state applied a second time, after the player has
\* reached the state and position it asks for, makes the client call none of
\* seekTo, playVideo, pauseVideo, loadVideoById.
C20_SecondApplicationIsNoOp ==
    (vs.op = "video-state" /\ vs.repeat /\ Reached(vs.before, vs.data)) =>
        vs.calls = << >>

\* the same payload handled twice in a row, the first time with a seek and a
\* state change still to do, found done the second time
C20_Witness ==
    /\ vs.op = "video-state"
    /\ vs.repeat
    /\ Reached(vs.before, vs.data)
    /\ vs.data.currentTime = 30
    /\ vs.calls = << >>

\* C27: every connection id in a room-users reply for room R is an open
\* connection that is subscribed to R (it gets R's broadcasts) and whose room
\* is R (its disconnect sends user-left to R); a connection that has left R
\* or has gone away is not listed.
C27_RoomUsersAreSubscribed ==
    (last.op = "join-room" /\ Truthy(last.arg)) =>
        \A i \in 1..Len(out) :
            out[i].ev = "room-users" =>
                \A d \in Range(out[i].data) :
                    /\ d \in Live
                    /\ last.arg \in sids[d]
                    /\ roomId[d] = last.arg

\* C30: once a client has applied a remote PLAYING or PAUSED video-state, the
\* video loaded in its player is the one the message names.
C30_SameVideoAfterSync ==
    (vs.op = "video-state" /\ vs.data.state \in {"PLAYING", "PAUSED"}) =>
        player.videoId = vs.data.videoId

\* C21: none of the player events that come from the seek, play or pause
\* calls made for a remote video-state is emitted as a video-state: a remote
\* update is never echoed to the room.
C21_NoEcho ==
    (pe.op = "event" /\ pe.cause = "remote") => pe.outcome # "emitted"

\* C22: in the throttled client (part_001, syncThrottle = 100) two video-state
\* emissions are at least 100 ms apart; events of one burst give at most one
\* emission.
C22_EmissionsThrottled ==
    (pe.op = "event" /\ pe.build = "part_001" /\ pe.outcome = "emitted") =>
        \A d \in pe.sinceEmit : d >= SyncThrottle

\* an emission made exactly 100 ms after the emission before it
C22_Witness ==
    /\ pe.op = "event"
    /\ pe.build = "part_001"
    /\ pe.outcome = "emitted"
    /\ pe.sinceEmit = {SyncThrottle}

\* C28: in the throttled client, when a click of the user has left the player
\* in PLAYING or PAUSED, the client is connected and no suppression is active,
\* the event carrying that final state is not thrown away: once no event is
\* left to deliver, that state has been emitted (or is the state the client
\* recorded last).
C28_FinalStateEmitted ==
    (/\ pe.op = "event"
     /\ pe.build = "part_001"
     /\ pe.cause = "user"
     /\ pe.state \in {"PLAYING", "PAUSED"}
     /\ page.isConnected
     /\ ~pe.flagged
     /\ events = << >>) => pe.outcome \in {"emitted", "stale"}

\* C29: after a remote video-state that needed no call on the player, the
\* next PLAYING or PAUSED event of a click of the user is emitted, the client
\* being connected.
C29_ClickAfterNoOpEmitted ==
    (/\ pe.op = "event"
     /\ pe.afterNoOp
     /\ pe.cause = "user"
     /\ pe.state \in {"PLAYING", "PAUSED"}
     /\ page.isConnected) => pe.outcome = "emitted"

\* C23: the application page creates the signaling socket, and so emits
\* join-room, only when the storage its gate read held a token and a user
\* record that parses, and its currentUser is an identity (not null).
C23_NoSocketWithoutIdentity ==
    (auth.socket \/ auth.joined) =>
        /\ auth.checked.token \notin {Null, ""}
        /\ auth.checked.user \notin {Null, ""}
        /\ ~Throws(auth.checked.user)
        /\ auth.currentUser \notin {Null, "parsed:null", "parsed:false"}

\* a page over a stored token and user record that passed the gate, created
\* the socket and emitted join-room
C23_Witness ==
    /\ auth.joined
    /\ auth.currentUser = "parsed:user"
    /\ auth.checked.token = "jwt"

\* C26: of the signup requests for one email address at most one is answered
\* with a token, every other one gets 409 (or 400 for a missing field, 500
\* for a password that cannot be hashed), and no stored user record is ever
\* replaced by another.
C26_OneAccountPerEmail ==
    /\ accounts.overwritten = {}
    /\ \A r1 \in Requests : \A r2 \in Requests \ {r1} :
          (/\ accounts.req[r1].pc = "done"
           /\ accounts.req[r2].pc = "done"
           /\ accounts.req[r1].email = accounts.req[r2].email
           /\ accounts.req[r1].code = 200)
          => \/ accounts.req[r2].code \in {400, 409}
             \/ /\ accounts.req[r2].code = 500
                /\ accounts.req[r2].password = "number"

\* C24: some client that is the designated offerer and has no peer
\* connection receives a room-users list with at least one peer and calls
\* connect() from that handler: the branch is taken at some point.
C24_RoomUsersStartsConnection == <>StartedOnRoomUsers

\* the second member's offer-answer exchange with the first is complete: the
\* first member's link is the initiator's, its offer answered and the answer
\* applied; the second member's link was made on room-users, has the offer
\* applied and its answer set; no offer is outstanding either way
Negotiated ==
    /\ Len(members) = 2
    /\ LET a == members[1]
           b == members[2]
       IN /\ peers[a][b] # NoLink
          /\ peers[b][a] # NoLink
          /\ peers[a][b].initiator /\ peers[a][b].offered
          /\ peers[a][b].signaling = "stable" /\ peers[a][b].remote
          /\ ~peers[b][a].initiator /\ peers[b][a].via = "room-users"
          /\ peers[b][a].signaling = "stable"
          /\ peers[b][a].remote /\ peers[b][a].local
          /\ pending[a][b] = 0 /\ pending[b][a] = 0
          /\ \A i \in 1..Len(inbox[a]) : inbox[a][i].ev \notin {"offer", "answer"}
          /\ \A i \in 1..Len(inbox[b]) : inbox[b][i].ev \notin {"offer", "answer"}

\* an offer is about to be handled by a client that has no link for its sender
OfferBeforeLink ==
    \E p \in Clients :
        /\ inbox[p] # << >>
        /\ Head(inbox[p]).ev = "offer"
        /\ peers[p][Head(inbox[p]).from] = NoLink

\* C25: with the part_001 client, when B has joined a room in which A is, B's
\* link for A exists by the time A's offer is handled, A never has more than
\* one offer to B outstanding and B none to A, and with every message
\* delivered the exchange completes: A offered, B applied the offer and
\* answered, A applied the answer.
C25_JoinNegotiates ==
    /\ [](build = "part_001" =>
            /\ ~OfferBeforeLink
            /\ \A p \in Clients : \A q \in Clients :
                  pending[p][q] <= 1
                  /\ (pending[p][q] = 1 => members[1] = p))
    /\ ((build = "part_001" /\ Len(members) = 2) ~> Negotiated)

\* both part_001 clients joined and the exchange is complete
C25_Witness == build = "part_001" /\ Negotiated
====
